---- MODULE Spec2Model ----
(***************************************************************************)
(* Model of datasets/coco.py: the annotation normaliser                    *)
(* ConvertCocoPolysToMask.__call__, the per-split pipeline table           *)
(* make_coco_transforms, and the construction of a CocoDetection dataset   *)
(* (directly and through build).                                           *)
(*                                                                         *)
(* Tensors are modelled as sequences (a 2-d tensor is a sequence of rows), *)
(* Python dicts as functions on strings, and a raised exception as the     *)
(* name of its class in the field "raised" of an operation's outcome.      *)
(***************************************************************************)
EXTENDS Integers, Sequences, FiniteSets, TLC

VARIABLES return_masks, call, ret, annFiles, op, dataset, transforms, err

vars == <<return_masks, call, ret, annFiles, op, dataset, transforms, err>>

convertVars == <<return_masks, call, ret>>
datasetVars == <<annFiles, op, dataset, transforms, err>>

\* Python's None, and "no exception was raised".
None == <<>>
NoError == "no error"

(***************************************************************************)
(* Bounds and input universes.                                             *)
(***************************************************************************)
\* Longest raw annotation list handed to one __call__.
MaxAnno == 2

\* image.size values (width, height): PIL order.
ImageSizes == { <<3, 2>>, <<640, 480>> }

\* Raw bbox values (x, y, width, height) of arity 4.
GoodBBoxes ==
    { <<100, 100, 50, 60>>,    \* inside 640x480, wholly outside 3x2
      <<100, 100, 50, 0>>,     \* zero height
      <<1, 1, 0, 1>>,          \* zero width
      <<2, 1, -1, 1>>,         \* negative width
      <<-1, 1, 3, 5>>,         \* runs off the left and the bottom of 3x2
      <<600, 400, 100, 100>> } \* runs off the right and bottom of 640x480

\* Raw bbox values of the wrong arity.
BadBBoxes == { <<>>, <<1, 1>>, <<0, 0, 1, 1, 2, 2, 3, 3>> }

\* The optional / per-object fields that ride along with a bbox.
Attributes ==
    { [category_id |-> 3, area |-> 3000, segmentation |-> <<0, 0, 1, 1>>],
      [category_id |-> 7, area |-> 12, segmentation |-> <<1, 1, 2, 2>>,
       iscrowd |-> 0],
      [category_id |-> 5, area |-> 40, segmentation |-> <<2, 0, 2, 1>>,
       iscrowd |-> 1],
      [category_id |-> 3, area |-> 0, segmentation |-> <<0, 1, 1, 0>>,
       keypoints |-> <<1, 1, 2>>],
      [category_id |-> 7, area |-> 25, segmentation |-> <<1, 0, 0, 1>>,
       iscrowd |-> 0, keypoints |-> <<2, 1, 1>>],
      [category_id |-> 5, area |-> 9, segmentation |-> <<2, 2, 0, 0>>,
       iscrowd |-> 1, keypoints |-> <<0, 0, 0>>] }

RawAnnotations ==
    { ("bbox" :> b) @@ a : b \in GoodBBoxes \cup BadBBoxes, a \in Attributes }

ImageIds == { 42 }

RECURSIVE SeqsUpTo(_, _)
SeqsUpTo(S, n) ==
    IF n = 0 THEN { <<>> }
    ELSE LET shorter == SeqsUpTo(S, n - 1)
         IN  shorter \cup { Append(s, x) : s \in { t \in shorter : Len(t) = n - 1 }, x \in S }

AnnotationLists == SeqsUpTo(RawAnnotations, MaxAnno)

(***************************************************************************)
(* Tensor helpers.                                                         *)
(***************************************************************************)
Has(obj, key) == key \in DOMAIN obj

RECURSIVE Flatten(_)
Flatten(rows) ==
    IF rows = <<>> THEN <<>> ELSE Head(rows) \o Flatten(Tail(rows))

\* torch.as_tensor on a nested list needs every row to have the same length.
Ragged(rows) == \E i, j \in 1..Len(rows) : Len(rows[i]) # Len(rows[j])

\* tensor.reshape(-1, 4) of the flat data: rows of four.
Reshape4(flat) ==
    [i \in 1..(Len(flat) \div 4) |-> SubSeq(flat, 4 * (i - 1) + 1, 4 * i)]

\* tensor.view(n, -1, 3) of one flat row: triples.
View3(flat) ==
    [i \in 1..(Len(flat) \div 3) |-> SubSeq(flat, 3 * (i - 1) + 1, 3 * i)]

clamp(v, lo, hi) == IF v < lo THEN lo ELSE IF v > hi THEN hi ELSE v

\* boxes[:, 2:] += boxes[:, :2]
AddOrigin(boxes) ==
    [i \in 1..Len(boxes) |->
        <<boxes[i][1], boxes[i][2],
          boxes[i][3] + boxes[i][1], boxes[i][4] + boxes[i][2]>>]

ClampBoxesSwapped(boxes, w, h) ==
    [i \in 1..Len(boxes) |->
        <<clamp(boxes[i][1], 0, h), clamp(boxes[i][2], 0, w),
          clamp(boxes[i][3], 0, h), clamp(boxes[i][4], 0, w)>>]

\* boxes[:, 0::2].clamp_(min=0, max=w); boxes[:, 1::2].clamp_(min=0, max=h)
ClampBoxes(boxes, w, h) ==
    [i \in 1..Len(boxes) |->
        <<clamp(boxes[i][1], 0, w), clamp(boxes[i][2], 0, h),
          clamp(boxes[i][3], 0, w), clamp(boxes[i][4], 0, h)>>]

KeepMaskNonStrict(boxes) ==
    [i \in 1..Len(boxes) |->
        (boxes[i][4] >= boxes[i][2]) /\ (boxes[i][3] >= boxes[i][1])]

\* keep = (boxes[:, 3] > boxes[:, 1]) & (boxes[:, 2] > boxes[:, 0])
KeepMask(boxes) ==
    [i \in 1..Len(boxes) |->
        (boxes[i][4] > boxes[i][2]) /\ (boxes[i][3] > boxes[i][1])]

\* Indexing with a boolean mask is defined only when the mask is as long as
\* the tensor's leading dimension; torch raises IndexError otherwise.
MaskFitsAnyLength(t, keep) == TRUE

MaskFits(t, keep) == Len(t) = Len(keep)

RECURSIVE Select(_, _)
Select(t, keep) ==
    IF t = <<>> \/ keep = <<>> THEN <<>>
    ELSE (IF Head(keep) THEN <<Head(t)>> ELSE <<>>)
         \o Select(Tail(t), Tail(keep))

(***************************************************************************)
(* convert_coco_poly_to_mask and ConvertCocoPolysToMask.__call__           *)
(***************************************************************************)
\* One bitmap per object; the rasteriser (pycocotools) is opaque, so a
\* bitmap is identified by what it was rasterised from.
convert_coco_poly_to_mask(segmentations, height, width) ==
    [i \in 1..Len(segmentations) |->
        [polygons |-> segmentations[i], height |-> height, width |-> width]]

NonCrowdNeedsKey(anno) ==
    SelectSeq(anno, LAMBDA obj : Has(obj, "iscrowd") /\ obj["iscrowd"] = 0)

\* anno = [obj for obj in anno if 'iscrowd' not in obj or obj['iscrowd'] == 0]
NonCrowd(anno) ==
    SelectSeq(anno, LAMBDA obj : ~Has(obj, "iscrowd") \/ obj["iscrowd"] = 0)

Raise(exc) == [raised |-> exc, target |-> None]

Field(anno, key) == [i \in 1..Len(anno) |-> anno[i][key]]

\* The body of __call__ once the crowd objects are gone.
Normalize(w, h, image_id, anno, masksOn) ==
    LET rawBoxes == Field(anno, "bbox")
    IN
    IF Ragged(rawBoxes) THEN Raise("ValueError")
    ELSE IF Len(Flatten(rawBoxes)) % 4 # 0 THEN Raise("RuntimeError")
    ELSE
    LET boxes   == ClampBoxes(AddOrigin(Reshape4(Flatten(rawBoxes))), w, h)
        classes == Field(anno, "category_id")
        masks   == convert_coco_poly_to_mask(Field(anno, "segmentation"), h, w)
        withKp  == anno # <<>> /\ Has(anno[1], "keypoints")
    IN
    IF withKp /\ \E i \in 1..Len(anno) : ~Has(anno[i], "keypoints")
    THEN Raise("KeyError")
    ELSE IF withKp /\ Ragged(Field(anno, "keypoints")) THEN Raise("ValueError")
    ELSE IF withKp /\ Len(anno[1]["keypoints"]) % 3 # 0 THEN Raise("RuntimeError")
    ELSE
    LET keypoints == [i \in 1..Len(anno) |-> View3(anno[i]["keypoints"])]
        keep      == KeepMask(boxes)
        area      == Field(anno, "area")
        iscrowd   == [i \in 1..Len(anno) |->
                        IF Has(anno[i], "iscrowd") THEN anno[i]["iscrowd"] ELSE 0]
    IN
    IF ~MaskFits(classes, keep) THEN Raise("IndexError")
    ELSE IF masksOn /\ ~MaskFits(masks, keep) THEN Raise("IndexError")
    ELSE IF withKp /\ ~MaskFits(keypoints, keep) THEN Raise("IndexError")
    ELSE IF ~MaskFits(area, keep) \/ ~MaskFits(iscrowd, keep) THEN Raise("IndexError")
    ELSE
    [raised |-> NoError,
     target |->
        [boxes |-> Select(boxes, keep),
         labels |-> Select(classes, keep),
         image_id |-> <<image_id>>,
         area |-> Select(area, keep),
         iscrowd |-> Select(iscrowd, keep),
         orig_size |-> <<h, w>>,
         size |-> <<h, w>>]
        @@ (IF masksOn THEN "masks" :> Select(masks, keep) ELSE <<>>)
        @@ (IF withKp THEN "keypoints" :> Select(keypoints, keep) ELSE <<>>)]

ConvertCocoPolysToMask_call(self_return_masks, image, target) ==
    Normalize(image[1], image[2], target.image_id,
              NonCrowd(target.annotations), self_return_masks)

\* The call has not returned yet.
Pending == [raised |-> "pending", target |-> None]

(***************************************************************************)
(* make_coco_transforms                                                    *)
(***************************************************************************)
\* A pipeline step; T.Compose([...]) is the sequence of its steps.
Step(name, params) == [step |-> name, params |-> params]

\* Per-mille values of the mean and std handed to T.Normalize.
normalize ==
    Step("Compose",
         << Step("ToTensor", <<>>),
            Step("Normalize", << <<485, 456, 406>>, <<229, 224, 225>> >>) >>)

scales == <<480, 512, 544, 576, 608, 640, 672, 704, 736, 768, 800>>

Returns(v) == [raised |-> NoError, value |-> v]
Raises(exc) == [raised |-> exc, value |-> None]

TrainPipeline ==
    << Step("RandomHorizontalFlip", <<>>),
       Step("RandomSelect",
            << Step("RandomResize", <<scales, 1333>>),
               Step("Compose",
                    << Step("RandomResize", << <<400, 500, 600>>, None >>),
                       Step("RandomSizeCrop", <<384, 600>>),
                       Step("RandomResize", <<scales, 1333>>) >>) >>),
       normalize >>

ExtraFixedPipeline ==
    << Step("RandomHorizontalFlip", <<>>),
       Step("RandomResize", << << <<600, 600>> >>, None >>),
       normalize >>

ExtraPipeline == << normalize >>

ValPipeline == << Step("RandomResize", << <<800>>, 1333 >>), normalize >>

make_coco_transforms_defaulting(image_set, fix_size) ==
    IF image_set = "train" THEN Returns(TrainPipeline)
    ELSE IF image_set = "extra"
         THEN IF fix_size THEN Returns(ExtraFixedPipeline)
              ELSE Returns(ExtraPipeline)
    ELSE Returns(ValPipeline)

make_coco_transforms_extra_unfixed(image_set, fix_size) ==
    IF image_set = "train" THEN Returns(TrainPipeline)
    ELSE IF image_set = "extra" THEN Returns(ExtraPipeline)
    ELSE IF image_set = "val" THEN Returns(ValPipeline)
    ELSE Raises("ValueError")

make_coco_transforms(image_set, fix_size) ==
    IF image_set = "train" THEN Returns(TrainPipeline)
    ELSE IF image_set = "extra"
         THEN IF fix_size THEN Returns(ExtraFixedPipeline)
              ELSE Returns(ExtraPipeline)
    ELSE IF image_set = "val" THEN Returns(ValPipeline)
    ELSE Raises("ValueError")

(***************************************************************************)
(* get_paths, CocoDetection.__init__, build                                *)
(***************************************************************************)
TrainAnnFile == "/mnt/thanhpd/code/mtsd_cl/CL_rtdetr/train_output_file_coco.json"
ValAnnFile == "/mnt/thanhpd/code/mtsd_cl/CL_rtdetr/val_output_file_coco.json"

get_paths ==
    [train |-> << "/mnt/thanhpd/MTSD/mtsd_fully_annotated_train_images/images",
                  TrainAnnFile >>,
     val |-> << "/mnt/thanhpd/MTSD/mtsd_v2_fully_annotated_images.val.zip/images",
                ValAnnFile >>]

\* What the annotation files may hold: a category catalog and image ids.
StoreCatIds == { 5, 7 }
RequestCatIds == { 5, 7, 999 }
StoreImgIds == { 1, 2 }
Meta(c) == [id |-> c, supercategory |-> "sign"]
Stores ==
    { [cats |-> [c \in S |-> Meta(c)], imgs |-> StoreImgIds] : S \in SUBSET StoreCatIds }

SplitNames == { "train", "val", "extra", "test", "" }
\* A Python collection of ids, as passed for img_ids / class_ids.
Ids(S) == [ids |-> S]
ClassIdArgs == { None } \cup { Ids(S) : S \in SUBSET RequestCatIds }
ImgIdArgs == { None, Ids({ 2 }) }
Strategies == { "icarl", "hier" }

\* The parent class loads the annotation file and fixes the index space.
TvCocoDetection_init(ann_file, img_ids) ==
    [coco |-> annFiles[ann_file],
     ids |-> IF img_ids = None THEN annFiles[ann_file].imgs ELSE img_ids.ids]

FilterCatsKeepMissing(class_ids, cats) ==
    [c \in class_ids |-> IF c \in DOMAIN cats THEN cats[c] ELSE None]

\* for class_id in class_ids: try: cats[class_id] = self.coco.cats[class_id]
\*                            except KeyError: pass
FilterCats(class_ids, cats) ==
    [c \in { k \in class_ids : k \in DOMAIN cats } |-> cats[c]]

CocoDetection_init(ann_file, transforms_, return_masks_, img_ids, class_ids) ==
    LET super == TvCocoDetection_init(ann_file, img_ids)
    IN  IF class_ids = None THEN Raises("TypeError")
        ELSE Returns([ann_file |-> ann_file,
                      coco_cats |-> FilterCats(class_ids.ids, super.coco.cats),
                      ids |-> super.ids,
                      _transforms |-> transforms_,
                      prepare |-> [return_masks |-> return_masks_]])

build(image_set, args, img_ids, class_ids) ==
    LET PATHS == get_paths
    IN  IF image_set \notin DOMAIN PATHS THEN Raises("KeyError")
        ELSE LET t == make_coco_transforms(image_set, args.Sampling_strategy = "icarl")
             IN  IF t.raised # NoError THEN t
                 ELSE CocoDetection_init(PATHS[image_set][2], t.value, args.masks,
                                         img_ids, class_ids)

(***************************************************************************)
(* State machines.                                                         *)
(***************************************************************************)
InitDataset ==
    /\ annFiles = None
    /\ op = None
    /\ dataset = None
    /\ transforms = None
    /\ err = NoError

\* A ConvertCocoPolysToMask object and the arguments of one pending call.
InitConvert ==
    /\ return_masks \in BOOLEAN
    /\ call \in [image : ImageSizes,
                 target : [image_id : ImageIds, annotations : AnnotationLists]]
    /\ ret = Pending
    /\ InitDataset

\* prepare(img, target)
Call ==
    /\ ret = Pending
    /\ ret' = ConvertCocoPolysToMask_call(return_masks, call.image, call.target)
    /\ UNCHANGED <<return_masks, call, datasetVars>>

NextConvert == Call

SpecConvert == InitConvert /\ [][NextConvert]_vars

\* The annotation files on disk; nothing has been built yet.
InitBuild ==
    /\ annFiles \in [{TrainAnnFile, ValAnnFile} -> Stores]
    /\ op = None
    /\ dataset = None
    /\ transforms = None
    /\ err = NoError
    /\ return_masks = FALSE
    /\ call = None
    /\ ret = None

Idle == dataset = None /\ err = NoError

MakeCocoTransforms ==
    /\ Idle
    /\ transforms = None
    /\ \E image_set \in SplitNames, fix_size \in BOOLEAN :
          LET r == make_coco_transforms(image_set, fix_size)
          IN  /\ op' = [name |-> "make_coco_transforms",
                        image_set |-> image_set, fix_size |-> fix_size]
              /\ transforms' = r.value
              /\ err' = r.raised
    /\ UNCHANGED <<annFiles, dataset, convertVars>>

\* CocoDetection(img_folder, ann_file, transforms, return_masks, ...)
CocoDetection ==
    /\ Idle
    /\ \E ann_file \in DOMAIN annFiles, masks \in BOOLEAN,
          img_ids \in ImgIdArgs, class_ids \in ClassIdArgs :
          LET r == CocoDetection_init(ann_file, transforms, masks, img_ids, class_ids)
          IN  /\ op' = [name |-> "CocoDetection", ann_file |-> ann_file,
                        img_ids |-> img_ids, class_ids |-> class_ids]
              /\ dataset' = r.value
              /\ err' = r.raised
    /\ UNCHANGED <<annFiles, transforms, convertVars>>

Build ==
    /\ Idle
    /\ transforms = None
    /\ \E image_set \in SplitNames, strategy \in Strategies, masks \in BOOLEAN,
          img_ids \in ImgIdArgs, class_ids \in ClassIdArgs :
          LET args == [Sampling_strategy |-> strategy, masks |-> masks]
              r == build(image_set, args, img_ids, class_ids)
          IN  /\ op' = [name |-> "build", image_set |-> image_set,
                        img_ids |-> img_ids, class_ids |-> class_ids]
              /\ dataset' = r.value
              /\ err' = r.raised
    /\ UNCHANGED <<annFiles, transforms, convertVars>>

NextBuild == MakeCocoTransforms \/ CocoDetection \/ Build

SpecBuild == InitBuild /\ [][NextBuild]_vars

(***************************************************************************)
(* Vocabulary of the properties: the arguments and outcome of the call.    *)
(***************************************************************************)
Raw == call.target.annotations
ImgW == call.image[1]
ImgH == call.image[2]
Finished == ret # Pending
Returned == ret.raised = NoError

Min(a, b) == IF a < b THEN a ELSE b
Max(a, b) == IF a > b THEN a ELSE b

IsCrowd(obj) == "iscrowd" \in DOMAIN obj /\ obj["iscrowd"] # 0
Carries(obj, key) == key \in DOMAIN obj

\* Every object that is not a crowd region has a four-number bbox.
AllArity4 == \A i \in 1..Len(Raw) : ~IsCrowd(Raw[i]) => Len(Raw[i]["bbox"]) = 4

\* (x, y, w, h) as corner coordinates cut to the image.
Corners(b) ==
    << Max(0, Min(b[1], ImgW)), Max(0, Min(b[2], ImgH)),
       Max(0, Min(b[1] + b[3], ImgW)), Max(0, Min(b[2] + b[4], ImgH)) >>

HasExtent(b) ==
    /\ Len(b) = 4
    /\ Corners(b)[3] > Corners(b)[1]
    /\ Corners(b)[4] > Corners(b)[2]

\* Positions, in the raw list, of the objects that should come out.
Survivors ==
    SelectSeq([i \in 1..Len(Raw) |-> i],
              LAMBDA i : ~IsCrowd(Raw[i]) /\ HasExtent(Raw[i]["bbox"]))

(***************************************************************************)
(* Properties of ConvertCocoPolysToMask.__call__  (SpecConvert)            *)
(***************************************************************************)
\* C1: every call on a list of well-formed annotations returns a target,
\* without raising, whose boxes, labels, area and iscrowd have one length N,
\* and whose masks (when return_masks) and keypoints (when present) have
\* leading dimension N.
C1_ReturnsAlignedTarget ==
    (Finished /\ AllArity4) =>
        /\ Returned
        /\ LET t == ret.target
               N == Len(t["boxes"])
           IN  /\ Len(t["labels"]) = N
               /\ Len(t["area"]) = N
               /\ Len(t["iscrowd"]) = N
               /\ return_masks => ("masks" \in DOMAIN t /\ Len(t["masks"]) = N)
               /\ "keypoints" \in DOMAIN t => Len(t["keypoints"]) = N

\* C2: every box of a returned target has x_max > x_min and y_max > y_min,
\* strictly.
C2_BoxesStrictlyPositive ==
    Returned =>
        \A j \in 1..Len(ret.target["boxes"]) :
            LET b == ret.target["boxes"][j]
            IN  b[3] > b[1] /\ b[4] > b[2]

\* A box survived while a non-crowd box without extent was dropped.
C2_Witness ==
    /\ Returned
    /\ Len(ret.target["boxes"]) >= 1
    /\ \E i \in 1..Len(Raw) : ~IsCrowd(Raw[i]) /\ ~HasExtent(Raw[i]["bbox"])

\* C3: the objects of the target are exactly the non-crowd raw annotations
\* whose clamped box has positive width and height, in their original order;
\* label, area and iscrowd at index j come from the same raw annotation as
\* box j, and every iscrowd value is 0.
C3_ExactlyTheSurvivorsInOrder ==
    Returned =>
        LET t == ret.target
        IN  /\ Len(t["boxes"]) = Len(Survivors)
            /\ Len(t["labels"]) = Len(Survivors)
            /\ Len(t["area"]) = Len(Survivors)
            /\ Len(t["iscrowd"]) = Len(Survivors)
            /\ \A j \in 1..Len(Survivors) :
                  LET obj == Raw[Survivors[j]]
                  IN  /\ t["boxes"][j] = Corners(obj["bbox"])
                      /\ t["labels"][j] = obj["category_id"]
                      /\ t["area"][j] = obj["area"]
                      /\ t["iscrowd"][j] = 0

\* A crowd object in front of the one object that survives.
C3_Witness ==
    /\ Returned
    /\ Len(Raw) = 2
    /\ IsCrowd(Raw[1])
    /\ Len(ret.target["labels"]) = 1
    /\ ret.target["labels"][1] = Raw[2]["category_id"]

\* C4: a surviving box made from (x, y, w, h) is
\* (clamp(x,0,W), clamp(y,0,H), clamp(x+w,0,W), clamp(y+h,0,H)): x against
\* the width, y against the height, so it lies in [0,W] x [0,H]; and
\* [100,100,50,60] in a 640x480 image gives [100,100,150,160].
C4_ClampedAgainstWidthAndHeight ==
    Returned =>
        LET boxes == ret.target["boxes"]
        IN  /\ Len(boxes) = Len(Survivors)
            /\ \A j \in 1..Len(boxes) :
                  LET b == Raw[Survivors[j]]["bbox"]
                  IN  /\ boxes[j][1] = clamp(b[1], 0, ImgW)
                      /\ boxes[j][2] = clamp(b[2], 0, ImgH)
                      /\ boxes[j][3] = clamp(b[1] + b[3], 0, ImgW)
                      /\ boxes[j][4] = clamp(b[2] + b[4], 0, ImgH)
                      /\ boxes[j][1] \in 0..ImgW /\ boxes[j][3] \in 0..ImgW
                      /\ boxes[j][2] \in 0..ImgH /\ boxes[j][4] \in 0..ImgH
            /\ ( /\ call.image = <<640, 480>>
                 /\ Len(Raw) = 1
                 /\ ~IsCrowd(Raw[1])
                 /\ Raw[1]["bbox"] = <<100, 100, 50, 60>> )
               => boxes = << <<100, 100, 150, 160>> >>

\* A box that ran off a 640x480 image was cut to width 640 and height 480.
C4_Witness ==
    /\ Returned
    /\ call.image = <<640, 480>>
    /\ \E j \in 1..Len(ret.target["boxes"]) :
          ret.target["boxes"][j] = <<600, 400, 640, 480>>

\* C6: the target has the key "keypoints" if and only if at least one
\* non-crowd object carries keypoints, whatever its position in the list.
C6_KeypointsIffAnyObjectCarries ==
    Returned =>
        ( "keypoints" \in DOMAIN ret.target
          <=> \E i \in 1..Len(Raw) : ~IsCrowd(Raw[i]) /\ Carries(Raw[i], "keypoints") )

\* C10: if some non-crowd annotation has a bbox of arity other than 4, the
\* call raises and returns no target.
C10_WrongArityRaises ==
    ( /\ Finished
      /\ \E i \in 1..Len(Raw) : ~IsCrowd(Raw[i]) /\ Len(Raw[i]["bbox"]) # 4 )
    => (ret.raised # NoError /\ ret.target = None)

\* Two boxes of arity 2: the four numbers reshape into one row, and the
\* call still raises.
C10_Witness ==
    /\ Finished
    /\ Len(Raw) = 2
    /\ \A i \in 1..2 : ~IsCrowd(Raw[i]) /\ Len(Raw[i]["bbox"]) = 2
    /\ ret.raised = "IndexError"

(***************************************************************************)
(* Properties of make_coco_transforms, CocoDetection and build (SpecBuild) *)
(***************************************************************************)
Did(names) == op # None /\ op.name \in names

StepNames(pipeline) == [i \in 1..Len(pipeline) |-> pipeline[i].step]

\* C5: after construction with a class_ids collection, the catalog's keys
\* are exactly the requested ids that the store knows, each mapped to the
\* store's metadata; an unknown requested id raises nothing.
C5_CatalogIsIntersection ==
    /\ (Did({"CocoDetection"}) /\ op.class_ids # None)
          => (err = NoError /\ dataset # None)
    /\ dataset # None =>
          LET store == annFiles[dataset.ann_file].cats
              cats == dataset.coco_cats
          IN  /\ DOMAIN cats = op.class_ids.ids \cap DOMAIN store
              /\ \A c \in DOMAIN cats : cats[c] = store[c]

\* class_ids = {5, 999} over a store that knows 5 gives the catalog {5}.
C5_Witness ==
    /\ dataset # None
    /\ op.class_ids = Ids({5, 999})
    /\ 5 \in DOMAIN annFiles[dataset.ann_file].cats
    /\ DOMAIN dataset.coco_cats = {5}
    /\ err = NoError

\* C7: construction with class_ids left at None, directly or through build
\* (for a split build knows the paths of), completes without raising.
C7_ClassIdsOptional ==
    ( /\ Did({"CocoDetection", "build"})
      /\ op.class_ids = None
      /\ op.name = "build" => op.image_set \in {"train", "val"} )
    => (err = NoError /\ dataset # None)

\* C8: for the split 'extra' the pipeline is flip, then the fixed-size
\* resize if fix_size, then normalize: flip comes first whatever fix_size is.
C8_ExtraStartsWithFlip ==
    (Did({"make_coco_transforms"}) /\ op.image_set = "extra") =>
        /\ err = NoError
        /\ StepNames(transforms) =
              <<"RandomHorizontalFlip">>
              \o (IF op.fix_size THEN <<"RandomResize">> ELSE <<>>)
              \o <<"Compose">>

\* C8 as amended: for 'extra' the pipeline is flip, fixed 600x600 resize,
\* normalize when fix_size is set, and normalize alone when it is not.
C8_ExtraPipelineByFixSize ==
    (Did({"make_coco_transforms"}) /\ op.image_set = "extra") =>
        /\ err = NoError
        /\ IF op.fix_size
           THEN /\ StepNames(transforms) =
                      <<"RandomHorizontalFlip", "RandomResize", "Compose">>
                /\ transforms[2].params = << << <<600, 600>> >>, None >>
                /\ transforms[3] = normalize
           ELSE /\ StepNames(transforms) = <<"Compose">>
                /\ transforms[1] = normalize

\* 'extra' without fix_size: one step, and it is not the flip.
C8_Witness ==
    /\ Did({"make_coco_transforms"})
    /\ op.image_set = "extra"
    /\ ~op.fix_size
    /\ Len(transforms) = 1
    /\ transforms[1].step # "RandomHorizontalFlip"

\* C9: for a split name outside {train, val, extra}, make_coco_transforms
\* raises and returns no pipeline, and build raises and returns no dataset.
C9_UnknownSplitRaises ==
    ( /\ Did({"make_coco_transforms", "build"})
      /\ op.image_set \notin {"train", "val", "extra"} )
    => /\ err # NoError
       /\ dataset = None
       /\ op.name = "make_coco_transforms" => transforms = None

\* make_coco_transforms('test') raised ValueError.
C9_Witness ==
    /\ Did({"make_coco_transforms"})
    /\ op.image_set = "test"
    /\ err = "ValueError"
    /\ transforms = None

====
